---- MODULE Spec2Model ----
(***************************************************************************)
(* Model of the Instagram -> Cloudinary relay (src/main.py).               *)
(*                                                                         *)
(* One request handler: credential check, input check, one GET to the      *)
(* extraction provider (yabes-desu), validation of the parsed reply,       *)
(* extraction of the media URLs, a sequential upload loop and the          *)
(* aggregated reply.  The two providers are the environment: their         *)
(* answers are drawn from small sets.                                      *)
(*                                                                         *)
(* Python/JSON values are tagged records: [t |-> "null"], [t |-> "bool",   *)
(* v |-> TRUE], [t |-> "num", v |-> 1], [t |-> "str", v |-> <<chars>>],    *)
(* [t |-> "list", v |-> <<values>>], [t |-> "dict", v |-> [key |-> value]].*)
(* Text is a sequence of one-character strings, so that startswith,        *)
(* percent-encoding and "contains" are computed and not assumed.           *)
(***************************************************************************)
EXTENDS Integers, Sequences, FiniteSets, TLC

VARIABLES env, CLOUDINARY_CLOUD_NAME, CLOUDINARY_API_KEY, CLOUDINARY_API_SECRET,
          pc, instagram_url, response, yabes_data, source_media_urls,
          cloudinary_uploads, index, result, calls, inflight, upload_responses

vars == <<env, CLOUDINARY_CLOUD_NAME, CLOUDINARY_API_KEY, CLOUDINARY_API_SECRET,
          pc, instagram_url, response, yabes_data, source_media_urls,
          cloudinary_uploads, index, result, calls, inflight, upload_responses>>

config == <<env, CLOUDINARY_CLOUD_NAME, CLOUDINARY_API_KEY, CLOUDINARY_API_SECRET>>

(***************************************************************************)
(* Bounds                                                                  *)
(***************************************************************************)
\* longest list the extraction provider puts in data.url
MaxUrls == 3

(***************************************************************************)
(* Python values                                                           *)
(***************************************************************************)
None == [t |-> "null"]

PyBool(b) == [t |-> "bool", v |-> b]

PyNum(n) == [t |-> "num", v |-> n]

PyStr(s) == [t |-> "str", v |-> s]

PyList(l) == [t |-> "list", v |-> l]

PyDict(d) == [t |-> "dict", v |-> d]

EmptyDict == PyDict(<<>>)

\* Python truthiness (bool(x)) of a value
Truthy(x) ==
    CASE x.t = "null" -> FALSE
      [] x.t = "bool" -> x.v
      [] x.t = "num"  -> x.v # 0
      [] x.t = "str"  -> Len(x.v) > 0
      [] x.t = "list" -> Len(x.v) > 0
      [] x.t = "dict" -> DOMAIN x.v # {}

\* a or b
PyOr(a, b) == IF Truthy(a) THEN a ELSE b

\* all([...]) over a sequence of values
PyAll(xs) == \A i \in 1..Len(xs) : Truthy(xs[i])

\* key in d, for a dict d
HasKey(d, k) == k \in DOMAIN d.v

\* d.get(k, default)
GetOr(d, k, default) == IF HasKey(d, k) THEN d.v[k] ELSE default

\* d.get(k)
Get(d, k) == GetOr(d, k, None)

isinstance(x, type) == x.t = type

\* s.startswith(prefix) on texts
startswith(s, prefix) ==
    /\ Len(s) >= Len(prefix)
    /\ \A i \in 1..Len(prefix) : s[i] = prefix[i]

\* text t occurs in text s as a contiguous run
Contains(s, t) ==
    \E off \in 0..(Len(s) - Len(t)) : \A i \in 1..Len(t) : s[off + i] = t[i]

http == <<"h", "t", "t", "p">>

\* str(x) as an f-string renders it, for the scalar values
str(x) ==
    CASE x.t = "str"  -> x.v
      [] x.t = "null" -> <<"N", "o", "n", "e">>
      [] x.t = "bool" -> IF x.v THEN <<"T", "r", "u", "e">> ELSE <<"F", "a", "l", "s", "e">>
      [] OTHER        -> <<"?">>

\* urllib.parse.quote(s, safe=''): unreserved characters stay, every other
\* character becomes its %XX escape
Unreserved == {"a", "b", "g", "h", "i", "p", "t", "x", "-", ".", "_", "~"}

Escape(c) ==
    CASE c = ":" -> <<"%", "3", "A">>
      [] c = "/" -> <<"%", "2", "F">>
      [] OTHER   -> <<"%", "?", "?">>

RECURSIVE quote(_)
quote(s) ==
    IF s = <<>> THEN <<>>
    ELSE (IF Head(s) \in Unreserved THEN <<Head(s)>> ELSE Escape(Head(s))) \o quote(Tail(s))

EXTERNAL_API_BASE_URL == <<"https://api.yabes-desu.workers.dev/download/instagram/v2?url=">>

(***************************************************************************)
(* What the two providers and the caller can send                          *)
(***************************************************************************)
\* marks a key the provider left out, when a dict is built
Absent == [t |-> "absent"]

\* the dict with the keys of f that are not left out
MkDict(f) == PyDict([k \in {key \in DOMAIN f : f[key] # Absent} |-> f[k]])

HttpA == <<"h", "t", "t", "p", "a">>

HttpB == <<"h", "t", "t", "p", "b">>

Ftp == <<"f", "t", "p", "a">>

\* entries the provider puts in a data.url list
UrlItems == {PyStr(HttpA), PyStr(HttpB), PyStr(Ftp), PyNum(7)}

UrlLists == UNION {[1..k -> UrlItems] : k \in 0..MaxUrls}

\* every shape of data.url: left out, null, number, dict, texts, lists
UrlShapes ==
    {Absent, None, PyNum(7), EmptyDict,
     PyStr(HttpA), PyStr(http), PyStr(Ftp), PyStr(<<"h", "t", "t">>), PyStr(<<>>)}
        \cup {PyList(l) : l \in UrlLists}

Metas ==
    {[caption |-> Absent, username |-> Absent, like |-> Absent, comment |-> Absent,
      isVideo |-> Absent],
     [caption |-> PyStr(<<"h", "i">>), username |-> PyStr(<<"b", "o", "b">>),
      like |-> PyNum(5), comment |-> PyNum(2), isVideo |-> PyBool(FALSE)]}

DataPayloads ==
    {MkDict([url |-> u, caption |-> m.caption, username |-> m.username, like |-> m.like,
             comment |-> m.comment, isVideo |-> m.isVideo]) : u \in UrlShapes, m \in Metas}

GoodData == MkDict([url |-> PyList(<<PyStr(HttpA), PyStr(HttpB)>>), caption |-> PyStr(<<"h", "i">>)])

\* the "data" member of the provider's record: left out, not a dict, or a dict
DataValues == DataPayloads \cup {Absent, None, PyStr(HttpA), PyList(<<PyStr(HttpA)>>)}

MsgM == <<"M", "s", "g">>

MsgE == <<"E", "r", "r">>

SuccessValues ==
    {Absent, PyBool(TRUE), PyBool(FALSE), None, PyStr(<<"t", "r", "u", "e">>), PyNum(1), PyNum(0)}

\* records whose "success" is left out or is not the boolean true
FailureRecords ==
    {MkDict([success |-> s, message |-> m, error |-> e, data |-> d]) :
        s \in SuccessValues \ {PyBool(TRUE)},
        m \in {Absent, None, PyStr(<<>>), PyStr(MsgM)},
        e \in {Absent, None, PyStr(<<>>), PyStr(MsgE)},
        d \in {Absent, GoodData}}

\* records whose "success" is the boolean true
SuccessRecords ==
    {MkDict([success |-> PyBool(TRUE), message |-> Absent, error |-> Absent, data |-> d]) :
        d \in DataValues}
        \cup {MkDict([success |-> PyBool(TRUE), message |-> PyStr(MsgM), error |-> PyStr(MsgE),
                      data |-> GoodData])}

\* JSON documents that are not an object
NonRecords == {None, PyList(<<>>), PyStr(HttpA), PyNum(1), PyBool(TRUE)}

NotJson == [json |-> FALSE]

Json(value) == [json |-> TRUE, value |-> value]

\* a few bodies for the statuses the provider seldom answers with
FewBodies ==
    {NotJson,
     Json(MkDict([success |-> PyBool(FALSE), message |-> PyStr(MsgM)])),
     Json(MkDict([success |-> PyBool(TRUE), data |-> GoodData])),
     Json(MkDict([success |-> PyBool(TRUE), data |-> MkDict([caption |-> PyStr(<<"h", "i">>)])]))}

HttpResponse(status_code, body) ==
    [kind |-> "Response", status_code |-> status_code, body |-> body]

\* what the extraction provider can answer
HttpResponses ==
    {HttpResponse(200, b) :
        b \in {NotJson} \cup {Json(x) : x \in FailureRecords \cup SuccessRecords \cup NonRecords}}
        \cup {HttpResponse(c, b) : c \in {201, 300, 404, 500}, b \in FewBodies}

\* what a caller can pass as instagram_url
InstagramUrls == {<<>>, <<"i", "g", ":", "/", "p">>}

\* an environment variable is unset (os.environ.get gives None), empty or set
Unset == None

EnvSet == PyStr(<<"x">>)

\* the environments the process is started in: everything set, nothing set,
\* the cloud name empty, the secret missing
Environments ==
    {[CLOUDINARY_CLOUD_NAME |-> EnvSet, CLOUDINARY_API_KEY |-> EnvSet, CLOUDINARY_API_SECRET |-> EnvSet],
     [CLOUDINARY_CLOUD_NAME |-> Unset, CLOUDINARY_API_KEY |-> Unset, CLOUDINARY_API_SECRET |-> Unset],
     [CLOUDINARY_CLOUD_NAME |-> PyStr(<<>>), CLOUDINARY_API_KEY |-> EnvSet, CLOUDINARY_API_SECRET |-> EnvSet],
     [CLOUDINARY_CLOUD_NAME |-> EnvSet, CLOUDINARY_API_KEY |-> EnvSet, CLOUDINARY_API_SECRET |-> Unset]}

\* what cloudinary.uploader.upload returns: an image, and a raw file (no dimensions)
UploadResults ==
    {MkDict([secure_url |-> PyStr(<<"s">>), public_id |-> PyStr(<<"i">>),
             resource_type |-> PyStr(<<"i", "m", "g">>), format |-> PyStr(<<"j">>),
             width |-> PyNum(4), height |-> PyNum(3)]),
     MkDict([secure_url |-> PyStr(<<"s">>), public_id |-> PyStr(<<"i">>),
             resource_type |-> PyStr(<<"r", "a", "w">>), format |-> Absent,
             width |-> Absent, height |-> Absent])}

\* str(e) of an exception raised by an upload
ErrorTexts == {<<"b", "a", "d">>}

(***************************************************************************)
(* Module-level configuration (main.py:18-45)                              *)
(***************************************************************************)
\* os.environ.get(name) or "<literal>": the literal written in the source
\* stands in for a variable that is unset or empty
FromEnvOrLiteral(e, name, literal) == PyOr(e[name], literal)

\* all([CLOUDINARY_CLOUD_NAME, CLOUDINARY_API_KEY, CLOUDINARY_API_SECRET])
CloudinaryConfigured ==
    PyAll(<<CLOUDINARY_CLOUD_NAME, CLOUDINARY_API_KEY, CLOUDINARY_API_SECRET>>)

(***************************************************************************)
(* Replies of the handler                                                  *)
(***************************************************************************)
HTTPException(status_code, detail) ==
    [kind |-> "HTTPException", status_code |-> status_code, detail |-> detail]

Return(body) == [kind |-> "return", body |-> body]

NoResult == [kind |-> "none"]

\* the outbound calls, as the trace records them
GetCall(url) == [kind |-> "requests.get", url |-> url, timeout |-> 45]

UploadCall(media_url) ==
    [kind |-> "cloudinary.uploader.upload", url |-> media_url, timeout |-> 60]

(***************************************************************************)
(* _extract_media_urls_from_yabes_response (main.py:69-84)                 *)
(***************************************************************************)
\* mutant: a list with the same URL twice keeps the first only
RECURSIVE HttpItems_Dedup(_)
HttpItems_Dedup(l) ==
    IF l = <<>> THEN <<>>
    ELSE LET rest == HttpItems_Dedup(SubSeq(l, 1, Len(l) - 1))
             last == l[Len(l)]
         IN IF isinstance(last, "str") /\ startswith(last.v, http)
               /\ \A i \in 1..Len(rest) : rest[i] # last
            THEN Append(rest, last) ELSE rest

\* the entries of a list that are texts beginning with "http", in order
RECURSIVE HttpItems(_)
HttpItems(l) ==
    IF l = <<>> THEN <<>>
    ELSE (IF isinstance(Head(l), "str") /\ startswith(Head(l).v, http)
          THEN <<Head(l)>> ELSE <<>>) \o HttpItems(Tail(l))

\* mutant: a single text is taken whatever it begins with
_extract_media_urls_AnyString(yabes_api_response) ==
    LET media_data_payload == Get(yabes_api_response, "data") IN
    IF ~Truthy(media_data_payload) \/ ~isinstance(media_data_payload, "dict") THEN <<>>
    ELSE LET urls_from_payload == Get(media_data_payload, "url") IN
         IF isinstance(urls_from_payload, "list") THEN HttpItems(urls_from_payload.v)
         ELSE IF isinstance(urls_from_payload, "str") THEN <<urls_from_payload>>
              ELSE <<>>

_extract_media_urls_from_yabes_response(yabes_api_response) ==
    LET media_data_payload == Get(yabes_api_response, "data") IN
    IF ~Truthy(media_data_payload) \/ ~isinstance(media_data_payload, "dict") THEN <<>>
    ELSE LET urls_from_payload == Get(media_data_payload, "url") IN
         IF isinstance(urls_from_payload, "list") THEN HttpItems(urls_from_payload.v)
         ELSE IF isinstance(urls_from_payload, "str") /\ startswith(urls_from_payload.v, http)
              THEN <<urls_from_payload>>
              ELSE <<>>

(***************************************************************************)
(* Stage 1: the checks on the provider's answer (main.py:107-155)          *)
(***************************************************************************)
\* mutant: only the server errors raise
raise_for_status_Only5xx(r) == 500 <= r.status_code /\ r.status_code < 600

\* response.raise_for_status(): requests raises HTTPError for 4xx and 5xx
raise_for_status(r) == 400 <= r.status_code /\ r.status_code < 600

\* mutant: "not yabes_data.get('success')" in place of "is not True"
SuccessIsNotTrue_Falsy(yd) == ~Truthy(Get(yd, "success"))

\* yabes_data.get('success') is not True
SuccessIsNotTrue(yd) == Get(yd, "success") # PyBool(TRUE)

\* not isinstance(yabes_data, dict) or 'success' not in yabes_data
NoSuccessField(yd) == ~isinstance(yd, "dict") \/ ~HasKey(yd, "success")

\* 'data' not in yabes_data or not isinstance(yabes_data.get('data'), dict)
NoValidData(yd) == ~HasKey(yd, "data") \/ ~isinstance(Get(yd, "data"), "dict")

\* yabes_data.get('message') or yabes_data.get('error', '<fallback>')
UnknownError == <<"Unknown error, \"success\" was not true.">>

\* mutant: the two fields are read in the other order
ErrorMessage_ErrorFirst(yd) ==
    PyOr(Get(yd, "error"), GetOr(yd, "message", PyStr(UnknownError)))

ErrorMessage(yd) == PyOr(Get(yd, "message"), GetOr(yd, "error", PyStr(UnknownError)))

FailedDependencyDetail(yd) ==
    <<"Failed to fetch data via external API (yabes-desu): ">> \o str(ErrorMessage(yd))

\* the checks of lines 137-155 in their order: the exception raised, or NoResult
Validate(yd) ==
    IF NoSuccessField(yd)
    THEN HTTPException(502, <<"Unexpected response structure from external Instagram API (yabes-desu).">>)
    ELSE IF SuccessIsNotTrue(yd)
    THEN HTTPException(424, FailedDependencyDetail(yd))
    ELSE IF NoValidData(yd)
    THEN HTTPException(502, <<"External Instagram API (yabes-desu) reported success but provided no valid data.">>)
    ELSE NoResult

(***************************************************************************)
(* Stages 2-4: the replies built from the data payload (main.py:160-206)   *)
(***************************************************************************)
NoMediaReply(url, yd) ==
    LET yabes_data_field == GetOr(yd, "data", EmptyDict) IN
    Return([message |-> "No media items found or extractable for the given Instagram URL.",
            instagram_url |-> url,
            original_yabes_desu_data_summary |->
                [caption |-> Get(yabes_data_field, "caption"),
                 username |-> Get(yabes_data_field, "username"),
                 is_video |-> Get(yabes_data_field, "isVideo")],
            cloudinary_uploads |-> <<>>])

CompleteReply(url, yd, uploads) ==
    LET yabes_data_field == GetOr(yd, "data", EmptyDict) IN
    Return([message |-> "Processing complete.",
            instagram_url |-> url,
            original_yabes_desu_data_summary |->
                [caption |-> Get(yabes_data_field, "caption"),
                 username |-> Get(yabes_data_field, "username"),
                 likes |-> Get(yabes_data_field, "like"),
                 comments |-> Get(yabes_data_field, "comment"),
                 is_video |-> Get(yabes_data_field, "isVideo")],
            cloudinary_uploads |-> uploads])

\* the entry appended after a successful upload (lines 182-187)
SuccessEntry(media_url, upload_result) ==
    [source_url |-> media_url,
     cloudinary_url |-> Get(upload_result, "secure_url"),
     public_id |-> Get(upload_result, "public_id"),
     resource_type |-> Get(upload_result, "resource_type"),
     format |-> Get(upload_result, "format"),
     width |-> Get(upload_result, "width"),
     height |-> Get(upload_result, "height")]

\* the entry appended by either except clause (lines 191, 194)
ErrorEntry(media_url, prefix, e) ==
    [source_url |-> media_url, error |-> PyStr(prefix \o e)]

(***************************************************************************)
(* State machine                                                           *)
(***************************************************************************)
Init ==
    /\ env \in Environments
    /\ CLOUDINARY_CLOUD_NAME = FromEnvOrLiteral(env, "CLOUDINARY_CLOUD_NAME", PyStr(<<"ddeazpmcd">>))
    /\ CLOUDINARY_API_KEY = FromEnvOrLiteral(env, "CLOUDINARY_API_KEY", PyStr(<<"193187914314353">>))
    /\ CLOUDINARY_API_SECRET =
           FromEnvOrLiteral(env, "CLOUDINARY_API_SECRET", PyStr(<<"g352-BZO2OGstejYakcniC-fbeQ">>))
    /\ pc = "idle"
    /\ instagram_url = <<>>
    /\ response = NoResult
    /\ yabes_data = EmptyDict
    /\ source_media_urls = <<>>
    /\ cloudinary_uploads = <<>>
    /\ index = 0
    /\ result = NoResult
    /\ calls = <<>>
    /\ inflight = {}
    /\ upload_responses = <<>>

\* mutant: the guard on the empty URL is left out
EmptyUrl_Never(u) == FALSE

\* not instagram_url (line 98)
EmptyUrl(u) == ~Truthy(PyStr(u))

\* the handler raises or returns
Finish(r) ==
    /\ result' = r
    /\ pc' = "done"

\* the handler raises or returns when the call it waited for is over
FinishAfterCall(r) ==
    /\ Finish(r)
    /\ inflight' = inflight \ {Len(calls)}

\* lines 90-108: a request arrives; the two guards, then the GET is sent
Receive(u) ==
    /\ pc = "idle"
    /\ instagram_url' = u
    /\ IF ~CloudinaryConfigured
       THEN /\ Finish(HTTPException(503,
                   <<"Cloudinary service is not configured on the server. Admin check required.">>))
            /\ UNCHANGED <<calls, inflight>>
       ELSE IF EmptyUrl(u)
       THEN /\ Finish(HTTPException(400, <<"Instagram URL cannot be empty.">>))
            /\ UNCHANGED <<calls, inflight>>
       ELSE /\ calls' = Append(calls, GetCall(EXTERNAL_API_BASE_URL \o quote(u)))
            /\ inflight' = inflight \cup {Len(calls) + 1}
            /\ pc' = "requests.get"
            /\ UNCHANGED result
    /\ UNCHANGED <<config, response, yabes_data, source_media_urls, cloudinary_uploads, index,
                   upload_responses>>

\* the GET is over, with an exception or an answer
GetEnds(r) ==
    /\ pc = "requests.get"
    /\ response' = r

\* lines 112-117: requests.exceptions.Timeout
ExtractionTimeout ==
    /\ GetEnds([kind |-> "Timeout"])
    /\ FinishAfterCall(HTTPException(504, <<"Request to external Instagram API (yabes-desu) timed out.">>))
    /\ UNCHANGED <<config, instagram_url, yabes_data, source_media_urls, cloudinary_uploads,
                   index, calls, upload_responses>>

\* lines 124-129: any other requests.exceptions.RequestException (connection failure)
ExtractionRequestException ==
    /\ GetEnds([kind |-> "ConnectionError"])
    /\ FinishAfterCall(HTTPException(502,
           <<"Error connecting to external Instagram API (yabes-desu): ", "<req_err>">>))
    /\ UNCHANGED <<config, instagram_url, yabes_data, source_media_urls, cloudinary_uploads,
                   index, calls, upload_responses>>

\* lines 110, 118-123: raise_for_status raises HTTPError
ExtractionHTTPError(r) ==
    /\ raise_for_status(r)
    /\ GetEnds(r)
    /\ FinishAfterCall(HTTPException(502,
           <<"External API (yabes-desu) returned HTTP ", ToString(r.status_code), ": ",
             "<response.text[:200]>">>))
    /\ UNCHANGED <<config, instagram_url, yabes_data, source_media_urls, cloudinary_uploads,
                   index, calls, upload_responses>>

\* the details of the two except clauses that can take the error of
\* response.json(): it is a ValueError (lines 130-135) and, in the later
\* releases of requests, a RequestException as well (lines 124-129), which
\* is tried first
InvalidJSONDetails ==
    {<<"External Instagram API (yabes-desu) returned invalid JSON.">>,
     <<"Error connecting to external Instagram API (yabes-desu): ", "<req_err>">>}

\* lines 111, 124-135: response.json() raises
ExtractionInvalidJSON(r) ==
    /\ ~raise_for_status(r)
    /\ ~r.body.json
    /\ GetEnds(r)
    /\ \E detail \in InvalidJSONDetails : FinishAfterCall(HTTPException(502, detail))
    /\ UNCHANGED <<config, instagram_url, yabes_data, source_media_urls, cloudinary_uploads,
                   index, calls, upload_responses>>

\* lines 111, 137-181: the answer parses; the checks, the media URLs, and
\* either a reply or the first upload call
ExtractionParsed(r) ==
    /\ ~raise_for_status(r)
    /\ r.body.json
    /\ GetEnds(r)
    /\ yabes_data' = r.body.value
    /\ IF Validate(r.body.value) # NoResult
       THEN /\ FinishAfterCall(Validate(r.body.value))
            /\ UNCHANGED <<source_media_urls, index, calls>>
       ELSE LET urls == _extract_media_urls_from_yabes_response(r.body.value) IN
            /\ source_media_urls' = urls
            /\ IF urls = <<>>
               THEN /\ FinishAfterCall(NoMediaReply(instagram_url, r.body.value))
                    /\ UNCHANGED <<index, calls>>
               ELSE /\ index' = 1
                    /\ calls' = Append(calls, UploadCall(urls[1]))
                    /\ inflight' = (inflight \ {Len(calls)}) \cup {Len(calls) + 1}
                    /\ pc' = "upload"
                    /\ UNCHANGED result
    /\ UNCHANGED <<config, instagram_url, cloudinary_uploads, upload_responses>>

\* mutant: the loop steps over an item
NextIndex_Skip(i) == i + 2

\* mutant: the loop stays on the item it has just uploaded (a retry)
NextIndex_Same(i) == i

\* the position the for loop takes after position i
NextIndex(i) == i + 1

\* lines 176-206: the upload of item `index` is over, the asset store having
\* answered `answer`, and left `entry`; the loop goes on with the next item,
\* or the reply is built
UploadEnds(answer, entry) ==
    /\ pc = "upload"
    /\ upload_responses' = Append(upload_responses, answer)
    /\ cloudinary_uploads' = Append(cloudinary_uploads, entry)
    /\ IF NextIndex(index) <= Len(source_media_urls)
       THEN /\ index' = NextIndex(index)
            /\ calls' = Append(calls, UploadCall(source_media_urls[NextIndex(index)]))
            /\ inflight' = (inflight \ {Len(calls)}) \cup {Len(calls) + 1}
            /\ UNCHANGED <<pc, result>>
       ELSE /\ FinishAfterCall(CompleteReply(instagram_url, yabes_data, Append(cloudinary_uploads, entry)))
            /\ UNCHANGED <<index, calls>>
    /\ UNCHANGED <<config, instagram_url, response, yabes_data, source_media_urls>>

\* lines 179-188
UploadSucceeds(upload_result) ==
    UploadEnds([kind |-> "result", value |-> upload_result],
               SuccessEntry(source_media_urls[index], upload_result))

\* lines 189-191: cloudinary.exceptions.Error
UploadCloudinaryError(e) ==
    UploadEnds([kind |-> "cloudinary.exceptions.Error", text |-> e],
               ErrorEntry(source_media_urls[index], <<"Cloudinary upload failed: ">>, e))

\* mutant: no except clause for the other exceptions; the exception leaves the
\* loop and the request ends with a server error
UploadUnexpectedError_Aborts(e) ==
    /\ pc = "upload"
    /\ upload_responses' = Append(upload_responses, [kind |-> "Exception", text |-> e])
    /\ FinishAfterCall(HTTPException(500, <<"Internal Server Error">>))
    /\ UNCHANGED <<config, instagram_url, response, yabes_data, source_media_urls,
                   cloudinary_uploads, index, calls>>

\* lines 192-194: any other Exception
UploadUnexpectedError(e) ==
    UploadEnds([kind |-> "Exception", text |-> e],
               ErrorEntry(source_media_urls[index],
                          <<"Unexpected error during Cloudinary upload: ">>, e))

\* the reply is sent; the handler keeps nothing for the next request
Respond ==
    /\ pc = "done"
    /\ pc' = "idle"
    /\ instagram_url' = <<>>
    /\ response' = NoResult
    /\ yabes_data' = EmptyDict
    /\ source_media_urls' = <<>>
    /\ cloudinary_uploads' = <<>>
    /\ index' = 0
    /\ result' = NoResult
    /\ calls' = <<>>
    /\ inflight' = {}
    /\ upload_responses' = <<>>
    /\ UNCHANGED config

Next ==
    \/ \E u \in InstagramUrls : Receive(u)
    \/ ExtractionTimeout
    \/ ExtractionRequestException
    \/ \E r \in HttpResponses : ExtractionHTTPError(r)
    \/ \E r \in HttpResponses : ExtractionInvalidJSON(r)
    \/ \E r \in HttpResponses : ExtractionParsed(r)
    \/ \E upload_result \in UploadResults : UploadSucceeds(upload_result)
    \/ \E e \in ErrorTexts : UploadCloudinaryError(e)
    \/ \E e \in ErrorTexts : UploadUnexpectedError(e)
    \/ Respond

Spec == Init /\ [][Next]_vars

(***************************************************************************)
(* Properties                                                              *)
(***************************************************************************)
UploadKind == "cloudinary.uploader.upload"

\* the positions of the trace that are upload calls
UploadCallsIssued == {i \in 1..Len(calls) : calls[i].kind = UploadKind}

\* the positions of the trace that are extraction calls
GetCallsIssued == {i \in 1..Len(calls) : calls[i].kind = "requests.get"}

\* the request got as far as the upload loop
ReachedLoop == index >= 1

\* the provider answered, the status raised nothing and the body was parsed
AnswerParsed ==
    /\ response.kind = "Response"
    /\ ~(response.status_code >= 400 /\ response.status_code <= 599)
    /\ response.body.json

\* a text that begins with "http"
IsHttpText(x) ==
    /\ x.t = "str"
    /\ Len(x.v) >= 4
    /\ SubSeq(x.v, 1, 4) = <<"h", "t", "t", "p">>

ResultFields == {"cloudinary_url", "public_id", "resource_type", "format", "width", "height"}

\* the i-th entry of `uploads` is about the i-th media URL, for every i
SameSources(uploads, n) ==
    /\ Len(uploads) = n
    /\ \A i \in 1..n : uploads[i].source_url = source_media_urls[i]

\* C1: once a request is in the upload loop, the outcomes recorded so far are
\* about the first index-1 media URLs in their order, and the reply's
\* cloudinary_uploads has one entry per extracted media URL, the i-th entry
\* carrying the i-th URL as source_url, whatever the uploads did.
C1_OutcomesMatchUrls ==
    /\ pc = "upload" => SameSources(cloudinary_uploads, index - 1)
    /\ (pc = "done" /\ ReachedLoop) =>
           /\ result.kind = "return"
           /\ SameSources(result.body.cloudinary_uploads, Len(source_media_urls))

\* three media URLs, the first two equal, the second upload failed and the
\* others succeeded
C1_Witness ==
    /\ pc = "done"
    /\ result.kind = "return"
    /\ Len(source_media_urls) = 3
    /\ source_media_urls[1] = source_media_urls[2]
    /\ source_media_urls[3] # source_media_urls[1]
    /\ upload_responses[1].kind = "result"
    /\ upload_responses[2].kind # "result"
    /\ upload_responses[3].kind = "result"

\* the entry recorded for an upload the asset store answered with `answer`:
\* the result fields and no error, or the source URL and an error text only
EntryShape(entry, answer) ==
    IF answer.kind = "result"
    THEN /\ DOMAIN entry = ResultFields \cup {"source_url"}
         /\ entry.cloudinary_url = Get(answer.value, "secure_url")
         /\ entry.public_id = Get(answer.value, "public_id")
         /\ entry.resource_type = Get(answer.value, "resource_type")
         /\ entry.format = Get(answer.value, "format")
         /\ entry.width = Get(answer.value, "width")
         /\ entry.height = Get(answer.value, "height")
    ELSE /\ DOMAIN entry = {"source_url", "error"}
         /\ entry.error.t = "str"
         /\ Contains(entry.error.v, answer.text)

\* C2: a failed upload of item k does not end the request: while items are
\* left the loop is at the item after the last answered one and no reply has
\* been made, and the request ends with the "Processing complete." reply, in
\* which a failed item carries only source_url and an error text and a
\* succeeded item carries the six result fields and no error.
C2_FailureDoesNotAbort ==
    /\ pc = "upload" =>
           /\ result = NoResult
           /\ index = Len(upload_responses) + 1
           /\ index <= Len(source_media_urls)
           /\ Len(cloudinary_uploads) = Len(upload_responses)
           /\ \A k \in 1..Len(upload_responses) :
                  EntryShape(cloudinary_uploads[k], upload_responses[k])
    /\ (pc = "done" /\ ReachedLoop) =>
           /\ result.kind = "return"
           /\ result.body.message = "Processing complete."
           /\ Len(upload_responses) = Len(source_media_urls)
           /\ Len(result.body.cloudinary_uploads) = Len(upload_responses)
           /\ \A k \in 1..Len(upload_responses) :
                  EntryShape(result.body.cloudinary_uploads[k], upload_responses[k])

\* the first upload raised the provider's error, the second another
\* exception, the third succeeded, and the reply was made
C2_Witness ==
    /\ pc = "done"
    /\ result.kind = "return"
    /\ Len(upload_responses) = 3
    /\ upload_responses[1].kind = "cloudinary.exceptions.Error"
    /\ upload_responses[2].kind = "Exception"
    /\ upload_responses[3].kind = "result"

\* the provider's parsed record says success = false
ReportedFailure ==
    /\ AnswerParsed
    /\ response.body.value.t = "dict"
    /\ HasKey(response.body.value, "success")
    /\ Get(response.body.value, "success") = PyBool(FALSE)

\* a text that is not empty
IsText(x) == x.t = "str" /\ x.v # <<>>

\* the provider answered, under whatever status, with a record that says
\* success = false
ReportedFailureAnyStatus ==
    /\ pc \in {"upload", "done"}
    /\ response.kind = "Response"
    /\ response.body.json
    /\ response.body.value.t = "dict"
    /\ HasKey(response.body.value, "success")
    /\ Get(response.body.value, "success") = PyBool(FALSE)

\* what the claim says of a request whose answer reported a failure: 424, no
\* upload call, and the provider's text in the detail (its message when that
\* is a non-empty text, otherwise its error when that is a non-empty text)
ForwardedAs424 ==
    LET message == Get(response.body.value, "message")
        error == Get(response.body.value, "error")
    IN /\ result.kind = "HTTPException"
       /\ result.status_code = 424
       /\ UploadCallsIssued = {}
       /\ IsText(message) => Contains(result.detail, message.v)
       /\ (~IsText(message) /\ IsText(error)) => Contains(result.detail, error.v)

\* C3 as stated: whenever the provider returns a parseable record with
\* success = false, the request fails with 424, issues no upload call, and
\* the detail contains the provider's message/error text verbatim.
C3_AnyReportedFailureIs424 ==
    ReportedFailureAnyStatus => ForwardedAs424

\* C3, amended: when the provider's answer has a status that is not 4xx/5xx
\* and is parsed to a record with success = false, the request fails with
\* 424, no upload call is issued, and the detail contains the provider's text
\* verbatim: its message when that is a non-empty text, otherwise its error
\* when that is a non-empty text.
C3_ReportedFailureIs424 ==
    (pc = "done" /\ ReportedFailure) => ForwardedAs424

\* success = false with a message and an error, and a data payload with URLs
C3_Witness ==
    /\ pc = "done"
    /\ ReportedFailure
    /\ IsText(Get(response.body.value, "message"))
    /\ IsText(Get(response.body.value, "error"))
    /\ HasKey(response.body.value, "data")
    /\ result.kind = "HTTPException"
    /\ result.status_code = 424

\* success = false with no message and an error text
C3_WitnessErrorOnly ==
    /\ pc = "done"
    /\ ReportedFailure
    /\ ~HasKey(response.body.value, "message")
    /\ IsText(Get(response.body.value, "error"))
    /\ result.kind = "HTTPException"

\* every credential is set, and not empty, in the environment of the process
EnvAllSet ==
    /\ Truthy(env.CLOUDINARY_CLOUD_NAME)
    /\ Truthy(env.CLOUDINARY_API_KEY)
    /\ Truthy(env.CLOUDINARY_API_SECRET)

\* the request ended with an HTTP error of this status
FailsWith(status_code) ==
    /\ pc = "done"
    /\ result.kind = "HTTPException"
    /\ result.status_code = status_code

\* C4: with a credential missing from the environment at start, every call
\* ends with 503 and no extraction call and no upload call is issued.
C4_MissingCredentialsGive503 ==
    (pc # "idle" /\ ~EnvAllSet) => (FailsWith(503) /\ calls = <<>>)

\* the GET of this request is over
Answered == pc \in {"upload", "done"} /\ response # NoResult

AnswerIsResponse == Answered /\ response.kind = "Response"

\* the answer's status is a client or server error
ErrorStatus ==
    AnswerIsResponse /\ response.status_code >= 400 /\ response.status_code <= 599

\* the answer's status is outside 200..299
NonSuccessStatus ==
    AnswerIsResponse /\ (response.status_code < 200 \/ response.status_code > 299)

\* the whole request failed with this status, without an upload call
Aborts(status_code) == FailsWith(status_code) /\ UploadCallsIssued = {}

\* what the claim says of the answers whose status was accepted: `accepted`
\* tells whether it was
BodyFailures(accepted) ==
    accepted =>
        /\ ~response.body.json => Aborts(502)
        /\ response.body.json =>
               LET yd == response.body.value IN
               IF yd.t # "dict" THEN Aborts(502)
               ELSE IF ~HasKey(yd, "success") THEN Aborts(502)
               ELSE (Get(yd, "success") = PyBool(TRUE)
                     /\ (~HasKey(yd, "data") \/ Get(yd, "data").t # "dict")) => Aborts(502)

TransportFailures ==
    /\ (Answered /\ response.kind = "Timeout") => Aborts(504)
    /\ (Answered /\ response.kind = "ConnectionError") => Aborts(502)

\* C5 as stated: a timeout gives 504; a connection failure, a status outside
\* 200..299, an unparseable body, a record without "success", and success =
\* true without a data record each give 502; no upload call, no reply.
C5_Stage1FailuresNon2xx ==
    /\ TransportFailures
    /\ NonSuccessStatus => Aborts(502)
    /\ BodyFailures(AnswerIsResponse /\ ~NonSuccessStatus)

\* C5, amended: a timeout gives 504; a connection failure, a status in
\* 400..599, and, under any other status, an unparseable body, a record
\* without "success", and success = true without a data record each give 502;
\* no upload call, no reply.
C5_Stage1Failures ==
    /\ TransportFailures
    /\ ErrorStatus => Aborts(502)
    /\ BodyFailures(AnswerIsResponse /\ ~ErrorStatus)

\* a 404 whose body is a well-formed success record ended with 502
C5_Witness ==
    /\ ErrorStatus
    /\ response.status_code = 404
    /\ response.body.json
    /\ Get(response.body.value, "success") = PyBool(TRUE)
    /\ Aborts(502)

\* success = true with a data member that is not a record ended with 502
C5_WitnessNoData ==
    /\ AnswerIsResponse
    /\ response.status_code = 200
    /\ response.body.json
    /\ response.body.value.t = "dict"
    /\ HasKey(response.body.value, "success")
    /\ Get(response.body.value, "success") = PyBool(TRUE)
    /\ HasKey(response.body.value, "data")
    /\ Get(response.body.value, "data").t = "list"
    /\ Aborts(502)

\* the media URLs of a data.url value, by the rule of the specification
ExpectedUrls(u) ==
    IF IsHttpText(u) THEN <<u>>
    ELSE IF u.t = "list" THEN SelectSeq(u.v, IsHttpText)
    ELSE <<>>

\* the checks of stage 1 passed and the media URLs were extracted
Extracted == pc = "upload" \/ (pc = "done" /\ result.kind = "return")

\* data.url of the record the handler holds
DataUrl == Get(Get(yabes_data, "data"), "url")

\* C6: the extracted media URLs are [s] when data.url is a text s beginning
\* with "http"; when data.url is a list, its entries that are texts beginning
\* with "http", in their order and with duplicates kept; empty otherwise.
C6_ExtractedUrls ==
    Extracted => source_media_urls = ExpectedUrls(DataUrl)

\* a list of three with an entry dropped between two equal URLs
C6_Witness ==
    /\ Extracted
    /\ DataUrl.t = "list"
    /\ Len(DataUrl.v) = 3
    /\ ~IsHttpText(DataUrl.v[2])
    /\ Len(source_media_urls) = 2
    /\ source_media_urls[1] = source_media_urls[2]

\* data.url a single text beginning with "http"
C6_WitnessSingle ==
    /\ Extracted
    /\ DataUrl.t = "str"
    /\ source_media_urls = <<DataUrl>>

\* the parsed answer is a record with success = true and a data record
SuccessWithData ==
    /\ AnswerIsResponse
    /\ ~ErrorStatus
    /\ response.body.json
    /\ response.body.value.t = "dict"
    /\ HasKey(response.body.value, "success")
    /\ Get(response.body.value, "success") = PyBool(TRUE)
    /\ HasKey(response.body.value, "data")
    /\ Get(response.body.value, "data").t = "dict"

\* C7: after a success = true answer with a data record whose url yields no
\* media URL, the request issues no upload call and returns the "no media
\* items found" reply: empty cloudinary_uploads, the input URL, and a summary
\* of caption, username and is_video only.
C7_NoMediaShortCircuit ==
    (SuccessWithData
     /\ ExpectedUrls(Get(Get(response.body.value, "data"), "url")) = <<>>) =>
        LET data == Get(response.body.value, "data") IN
        /\ pc = "done"
        /\ UploadCallsIssued = {}
        /\ result.kind = "return"
        /\ result.body.message = "No media items found or extractable for the given Instagram URL."
        /\ result.body.cloudinary_uploads = <<>>
        /\ result.body.instagram_url = instagram_url
        /\ result.body.original_yabes_desu_data_summary =
               [caption |-> Get(data, "caption"), username |-> Get(data, "username"),
                is_video |-> Get(data, "isVideo")]

\* data.url a text that does not begin with "http", the summary fields present
C7_Witness ==
    /\ SuccessWithData
    /\ Get(Get(response.body.value, "data"), "url").t = "str"
    /\ ~IsHttpText(Get(Get(response.body.value, "data"), "url"))
    /\ HasKey(Get(response.body.value, "data"), "caption")
    /\ pc = "done"
    /\ result.kind = "return"
    /\ result.body.cloudinary_uploads = <<>>

\* data.url left out
C7_WitnessAbsent ==
    /\ SuccessWithData
    /\ ~HasKey(Get(response.body.value, "data"), "url")
    /\ pc = "done"
    /\ result.kind = "return"

\* C8: the trace of outbound calls of a request is one extraction call at
\* most, then the upload calls of u_1, u_2, ... in that order, each once; an
\* upload call is in the trace only when the extraction call is over; only
\* the last call of the trace can be in flight; a finished request has no
\* call in flight and, when it went through the loop, one upload call per URL.
C8_SequentialCalls ==
    /\ Cardinality(GetCallsIssued) <= 1
    /\ calls # <<>> => calls[1].kind = "requests.get"
    /\ Len(calls) <= 1 + Len(source_media_urls)
    /\ \A j \in 2..Len(calls) :
           /\ calls[j].kind = UploadKind
           /\ calls[j].url = source_media_urls[j - 1]
    /\ UploadCallsIssued # {} => (response # NoResult /\ 1 \notin inflight)
    /\ inflight \subseteq {Len(calls)}
    /\ pc = "upload" => (Len(calls) = 1 + index /\ inflight = {Len(calls)})
    /\ pc = "done" => inflight = {}
    /\ (pc = "done" /\ ReachedLoop) => Len(calls) = 1 + Len(source_media_urls)
    /\ (pc = "done" /\ response # NoResult /\ ~ReachedLoop) => Len(calls) = 1

\* three uploads, the second of which failed, after the extraction call
C8_Witness ==
    /\ pc = "done"
    /\ Len(calls) = 4
    /\ upload_responses[2].kind = "Exception"
    /\ calls[2].url # calls[4].url

\* the extraction call timed out and nothing was sent after it
C8_WitnessTimeout ==
    /\ pc = "done"
    /\ response.kind = "Timeout"
    /\ Len(calls) = 1

\* C9: with the credentials all set, a call with an empty URL ends with 400
\* and no outbound call was issued.
C9_EmptyUrlIs400 ==
    (pc # "idle" /\ EnvAllSet /\ instagram_url = <<>>) => (FailsWith(400) /\ calls = <<>>)

C9_Witness ==
    /\ EnvAllSet
    /\ instagram_url = <<>>
    /\ FailsWith(400)
    /\ calls = <<>>

\* the parsed answer, when the status was accepted and the body is JSON
ParsedAnswer == AnswerIsResponse /\ ~ErrorStatus /\ response.body.json

\* C10: the checks on the parsed answer run in this order: not a record or no
\* "success" -> 502; "success" not the boolean true -> 424 (null, a text, a
\* number, and false with or without data); data left out or not a record ->
\* 502.  An upload call is issued only after success = true with a data
\* record that holds an http URL.
C10_CheckOrder ==
    /\ ParsedAnswer =>
           LET yd == response.body.value IN
           IF yd.t # "dict" THEN FailsWith(502)
           ELSE IF ~HasKey(yd, "success") THEN FailsWith(502)
           ELSE IF Get(yd, "success") # PyBool(TRUE) THEN FailsWith(424)
           ELSE IF ~HasKey(yd, "data") THEN FailsWith(502)
           ELSE IF Get(yd, "data").t # "dict" THEN FailsWith(502)
           ELSE result.kind # "HTTPException"
    /\ UploadCallsIssued # {} =>
           /\ SuccessWithData
           /\ ExpectedUrls(Get(Get(response.body.value, "data"), "url")) # <<>>

\* success = 1 (a number) with a good data record ended with 424
C10_Witness ==
    /\ ParsedAnswer
    /\ response.body.value.t = "dict"
    /\ HasKey(response.body.value, "success")
    /\ Get(response.body.value, "success") = PyNum(1)
    /\ HasKey(response.body.value, "data")
    /\ FailsWith(424)

\* success = false with data left out ended with 424
C10_WitnessFalseNoData ==
    /\ ParsedAnswer
    /\ response.body.value.t = "dict"
    /\ HasKey(response.body.value, "success")
    /\ Get(response.body.value, "success") = PyBool(FALSE)
    /\ ~HasKey(response.body.value, "data")
    /\ FailsWith(424)

====
